---------------------------- MODULE Spec2Model ----------------------------
(***************************************************************************)
(* Model of pkg/task_manager (TaskManager: StartTask, StopTask, HasTask,   *)
(* GracefulShutdown and the supervisor goroutine started by StartTask)     *)
(* and of pkg/shardqueue (Shardqueue: Start, Shard, Stop, shardWorker).    *)
(*                                                                         *)
(* Every access to the sync.Map registry, to the WaitGroup and to a        *)
(* context is one atomic step; a method that makes several such accesses   *)
(* is a sequence of steps of the calling goroutine, so that the            *)
(* interleavings of concurrent callers and supervisors are explored.       *)
(***************************************************************************)
EXTENDS Integers, FiniteSets, Sequences

\* Bounds of the exploration.
MaxGen == 2        \* generations (accepted StartTask calls) per run
MaxCalls == 3      \* API calls per run
MaxShard == 3      \* shardqueue: largest numShard
MaxMsgs == 3       \* shardqueue: Shard calls per run
QueueSize == 2     \* shardqueue: capacity of each channel (queueSize)

\* Caller goroutines, task ids, parent contexts and task functions.
Procs == {"p", "q"}
Ids == {"a", "b"}
EmptyId == ""
Ctxs == {"bg", "parent"}          \* context.Background() and a cancellable context with a deadline
Cancellable == {"parent"}
NilFn == "nil"
\* Task functions: "block" waits for ctx.Done() and returns ctx.Err() (Canceled is
\* logged as a cancellation, DeadlineExceeded as a failure); "work" ignores its
\* signal and returns nil on its own; "hang" ignores its signal and never returns.
Fns == {"block", "work", "hang"}

Gens == 1..MaxGen
NoGen == 0

\* Shard indices of the largest pool explored.
Shards == 0..(MaxShard - 1)

VARIABLES
    tasks,     \* TaskManager.tasks: id -> generation whose CancelFunc is stored (NoGen: no entry)
    wg,        \* TaskManager.wg counter
    ctxErr,    \* ctx.Err() of each parent context ("none": not terminated)
    nGen,      \* number of generations derived so far
    genId,     \* id of each generation
    genFn,     \* task function of each generation
    genCtx,    \* parent context each generation's ctxTask is derived from
    genErr,    \* ctxTask.Err() of each generation ("none": not terminated)
    sup,       \* supervisor goroutine of each generation: none, running, returned, deleted, done
    outcome,   \* classification logged by the supervisor
    pc,        \* position of each caller goroutine
    args,      \* arguments of the caller's current (or last) call
    loaded,    \* the caller's local cancelFn (value returned by tasks.Load)
    mine,      \* StartTask: the generation whose ctxTask/cancel the caller derived
    visit,     \* GracefulShutdown: keys tasks.Range has not visited yet
    snap,      \* GracefulShutdown(wait=false): the generations that were in the registry when the call was made
    bcast,     \* GracefulShutdown(wait=true): the generations whose handle Range's callback has fired
    waiter,    \* GracefulShutdown: the goroutine running wg.Wait(); close(done)
    last,      \* the call that returned most recently: its operation, return value and generation
    nCalls,    \* API calls made so far
    intBits,   \* shardqueue: width of Go's int on the build target (32 or 64)
    numShard,  \* Shardqueue.numShard
    chans,     \* Shardqueue.queue[i]: the channel is nil, open or closed
    queue,     \* Shardqueue.queue[i]: the messages buffered in the channel, oldest first
    worker,    \* shardWorker goroutine of each shard: none, ranging, busy (in fn), done
    processed, \* messages fn was invoked with by each shard's worker, in order
    sent,      \* the Shard calls that enqueued: routing key, queue index, message
    started,   \* Start: iterations of its loop done
    stopped,   \* Stop: iterations of its loop done
    fault      \* the run-time panic that ended the program ("none": running)

tmVars == <<tasks, wg, ctxErr, nGen, genId, genFn, genCtx, genErr, sup, outcome,
            pc, args, loaded, mine, visit, snap, bcast, waiter, last, nCalls>>
sqVars == <<intBits, numShard, chans, queue, worker, processed, sent, started, stopped, fault>>
vars == <<tmVars, sqVars>>

genVars == <<nGen, genId, genFn, genCtx>>
callVars == <<pc, args, loaded, mine, last, nCalls>>

\* A caller goroutine makes its next call.
Call(p) ==
    /\ pc[p] = "idle"
    /\ nCalls < MaxCalls
    /\ nCalls' = nCalls + 1

NoArgs == [op |-> "none", ctx |-> "bg", id |-> EmptyId, fn |-> NilFn, wait |-> FALSE]

NoCall == [op |-> "none", val |-> "none", gen |-> NoGen]

\* A call of operation o returning value v; g is the generation it acted on
\* (StartTask: derived, StopTask: loaded).  The caller keeps nothing of it.
Return(p, o, v, g) ==
    /\ pc' = [pc EXCEPT ![p] = "idle"]
    /\ args' = [args EXCEPT ![p] = NoArgs]
    /\ loaded' = [loaded EXCEPT ![p] = NoGen]
    /\ mine' = [mine EXCEPT ![p] = NoGen]
    /\ last' = [op |-> o, val |-> v, gen |-> g]

\* NewTaskManager (lines 16-18): empty registry, zero tracker; no call made yet.
TmInit ==
    /\ tasks = [i \in Ids |-> NoGen]
    /\ wg = 0
    /\ ctxErr = [c \in Ctxs |-> "none"]
    /\ nGen = 0
    /\ genId = [g \in Gens |-> EmptyId]
    /\ genFn = [g \in Gens |-> NilFn]
    /\ genCtx = [g \in Gens |-> "bg"]
    /\ genErr = [g \in Gens |-> "none"]
    /\ sup = [g \in Gens |-> "none"]
    /\ outcome = [g \in Gens |-> "none"]
    /\ pc = [p \in Procs |-> "idle"]
    /\ args = [p \in Procs |-> NoArgs]
    /\ loaded = [p \in Procs |-> NoGen]
    /\ mine = [p \in Procs |-> NoGen]
    /\ visit = [p \in Procs |-> {}]
    /\ snap = [p \in Procs |-> {}]
    /\ bcast = [p \in Procs |-> {}]
    /\ waiter = [p \in Procs |-> "none"]
    /\ last = NoCall
    /\ nCalls = 0

\* No Shardqueue is constructed in the runs of the task manager.
SqOff ==
    /\ intBits = 64
    /\ numShard = 0
    /\ chans = [i \in Shards |-> "nil"]
    /\ queue = [i \in Shards |-> <<>>]
    /\ worker = [i \in Shards |-> "none"]
    /\ processed = [i \in Shards |-> <<>>]
    /\ sent = <<>>
    /\ started = 0
    /\ stopped = 0
    /\ fault = "none"

Init == TmInit /\ SqOff

\* ------------------------------------------------------------------------
\* context package: firing a CancelFunc, and termination of a parent.

\* cancel(): idempotent; the first termination reason is kept.
Fired(g) == [genErr EXCEPT ![g] = IF @ = "none" THEN "Canceled" ELSE @]

\* Mutant of Propagated: only the oldest child derived from the parent is terminated.
PropagatedToOldest(c, r) ==
    [g \in Gens |-> IF /\ g <= nGen /\ genCtx[g] = c /\ genErr[g] = "none"
                       /\ \A h \in 1..nGen : genCtx[h] = c => g <= h
                    THEN r ELSE genErr[g]]

\* cancel() of a parent context (or its deadline expiring) with reason r:
\* every child derived from it that is not yet terminated takes the reason.
Propagated(c, r) ==
    [g \in Gens |-> IF g <= nGen /\ genCtx[g] = c /\ genErr[g] = "none" THEN r ELSE genErr[g]]

TerminateCtx(c, r) ==
    /\ ctxErr[c] = "none"
    /\ ctxErr' = [ctxErr EXCEPT ![c] = r]
    /\ genErr' = Propagated(c, r)
    /\ UNCHANGED <<tasks, wg, genVars, sup, outcome, callVars, visit, snap, bcast, sqVars, waiter>>

\* cancelAll() of the caller's parent context (cmd/task_manager/main.go, Pattern 2).
CancelCtx(c) == TerminateCtx(c, "Canceled")

\* Deadline of the caller's context expiring (main.go, Pattern 4).
DeadlineCtx(c) == TerminateCtx(c, "DeadlineExceeded")

\* ------------------------------------------------------------------------
\* HasTask (lines 20-23)

HasTaskResult(i) == IF tasks[i] # NoGen THEN "true" ELSE "false"

HasTask(p, i) ==
    /\ Call(p)
    /\ Return(p, "HasTask", HasTaskResult(i), NoGen)
    /\ UNCHANGED <<tasks, wg, ctxErr, genVars, genErr, sup, outcome, visit, snap, bcast, sqVars, waiter>>

\* ------------------------------------------------------------------------
\* StartTask

\* Mutant of Validate: the check of ctx.Err() (lines 34-37) is left out.
ValidateIgnoresSignal(c, i, f) ==
    IF i = EmptyId THEN "ErrInvalidTaskID"
    ELSE IF f = NilFn THEN "ErrNilTaskFunc"
    ELSE "ok"

\* Mutant of Validate: the check of fn == nil (lines 30-32) is left out.
ValidateIgnoresNilFn(c, i, f) ==
    IF i = EmptyId THEN "ErrInvalidTaskID"
    ELSE IF ctxErr[c] # "none" THEN ctxErr[c]
    ELSE "ok"

\* Lines 26-37: the synchronous validation; "ok" when the call is accepted.
Validate(c, i, f) ==
    IF i = EmptyId THEN "ErrInvalidTaskID"
    ELSE IF f = NilFn THEN "ErrNilTaskFunc"
    ELSE IF ctxErr[c] # "none" THEN ctxErr[c]
    ELSE "ok"

\* Callers that have been accepted and have not derived their generation yet.
Deriving == {p \in Procs : pc[p] \in {"st_load", "st_cancel", "st_store"}}

\* Entry and lines 26-37.
StartTask(p, c, i, f) ==
    /\ Call(p)
    /\ IF Validate(c, i, f) = "ok"
       THEN /\ nGen + Cardinality(Deriving) < MaxGen
            /\ pc' = [pc EXCEPT ![p] = "st_load"]
            /\ args' = [args EXCEPT ![p] = [op |-> "StartTask", ctx |-> c, id |-> i, fn |-> f, wait |-> FALSE]]
            /\ UNCHANGED <<loaded, mine, last>>
       ELSE Return(p, "StartTask", Validate(c, i, f), NoGen)
    /\ UNCHANGED <<tasks, wg, ctxErr, genVars, genErr, sup, outcome, visit, snap, bcast, sqVars, waiter>>

\* Line 39: cancelFn, ok := s.tasks.Load(id)
StLoad(p) ==
    /\ pc[p] = "st_load"
    /\ loaded' = [loaded EXCEPT ![p] = tasks[args[p].id]]
    /\ pc' = [pc EXCEPT ![p] = IF tasks[args[p].id] # NoGen THEN "st_cancel" ELSE "st_store"]
    /\ UNCHANGED <<tasks, wg, ctxErr, genVars, genErr, sup, outcome, args, mine, last, nCalls, visit, snap, bcast, sqVars, waiter>>

\* Line 40: cancelFn.(context.CancelFunc)()
StCancel(p) ==
    /\ pc[p] = "st_cancel"
    /\ genErr' = Fired(loaded[p])
    /\ pc' = [pc EXCEPT ![p] = "st_store"]
    /\ UNCHANGED <<tasks, wg, ctxErr, genVars, sup, outcome, args, loaded, mine, last, nCalls, visit, snap, bcast, sqVars, waiter>>

\* Lines 43-44: ctxTask, cancel := context.WithCancel(ctx); s.tasks.Store(id, cancel)
\* A child derived from a parent that has terminated meanwhile is born terminated.
StStore(p) ==
    /\ pc[p] = "st_store"
    /\ nGen' = nGen + 1
    /\ mine' = [mine EXCEPT ![p] = nGen + 1]
    /\ genId' = [genId EXCEPT ![nGen + 1] = args[p].id]
    /\ genFn' = [genFn EXCEPT ![nGen + 1] = args[p].fn]
    /\ genCtx' = [genCtx EXCEPT ![nGen + 1] = args[p].ctx]
    /\ genErr' = [genErr EXCEPT ![nGen + 1] = ctxErr[args[p].ctx]]
    /\ tasks' = [tasks EXCEPT ![args[p].id] = nGen + 1]
    /\ pc' = [pc EXCEPT ![p] = "st_add"]
    /\ UNCHANGED <<wg, ctxErr, sup, outcome, args, loaded, last, nCalls, visit, snap, bcast, sqVars, waiter>>

\* Lines 45-63: s.wg.Add(1); go func() {...}(); return nil
StAdd(p) ==
    /\ pc[p] = "st_add"
    /\ wg' = wg + 1
    /\ sup' = [sup EXCEPT ![mine[p]] = "running"]
    /\ Return(p, "StartTask", "nil", mine[p])
    /\ UNCHANGED <<tasks, ctxErr, genVars, genErr, outcome, nCalls, visit, snap, bcast, sqVars, waiter>>

\* ------------------------------------------------------------------------
\* The supervisor goroutine (lines 47-61)

\* Lines 54-60: the classification that is logged.
Classify(err) ==
    IF err = "Canceled" THEN "canceled"
    ELSE IF err # "nil" THEN "failed"
    ELSE "succeeded"

\* Mutant of FnReturns: every task function returns once its signal is terminated.
FnReturnsOnSignal(g) ==
    IF genErr[g] # "none" THEN {genErr[g]}
    ELSE IF genFn[g] = "work" THEN {"nil"} ELSE {}

\* What fn(ctxTask) can return in the current state.
FnReturns(g) ==
    CASE genFn[g] = "block" -> IF genErr[g] # "none" THEN {genErr[g]} ELSE {}
      [] genFn[g] = "work"  -> {"nil"}
      [] OTHER              -> {}

\* Lines 53-60: err := fn(ctxTask) returns and is classified.
SupReturn(g) ==
    /\ sup[g] = "running"
    /\ \E err \in FnReturns(g) : outcome' = [outcome EXCEPT ![g] = Classify(err)]
    /\ sup' = [sup EXCEPT ![g] = "returned"]
    /\ UNCHANGED <<tasks, wg, ctxErr, genVars, genErr, callVars, visit, snap, bcast, sqVars, waiter>>

\* Mutant of DeleteOnExit: the entry is kept when the task returned nil.
DeleteUnlessSucceeded(g) ==
    IF outcome[g] = "succeeded" THEN tasks ELSE [tasks EXCEPT ![genId[g]] = NoGen]

\* Mutant of DeleteOnExit: the entry is not removed when the task was cancelled.
DeleteUnlessCanceled(g) ==
    IF outcome[g] = "canceled" THEN tasks ELSE [tasks EXCEPT ![genId[g]] = NoGen]

\* Line 49 (deferred): s.tasks.Delete(id) of generation g's supervisor.
DeleteOnExit(g) == [tasks EXCEPT ![genId[g]] = NoGen]

SupDelete(g) ==
    /\ sup[g] = "returned"
    /\ tasks' = DeleteOnExit(g)
    /\ sup' = [sup EXCEPT ![g] = "deleted"]
    /\ UNCHANGED <<wg, ctxErr, genVars, genErr, outcome, callVars, visit, snap, bcast, sqVars, waiter>>

\* Mutant of DoneOnExit: Done is skipped when the task function failed.
DoneUnlessFailed(g) == IF outcome[g] = "failed" THEN wg ELSE wg - 1

\* Line 50 (deferred): s.wg.Done()
DoneOnExit(g) == wg - 1

SupDone(g) ==
    /\ sup[g] = "deleted"
    /\ wg' = DoneOnExit(g)
    /\ sup' = [sup EXCEPT ![g] = "done"]
    /\ UNCHANGED <<tasks, ctxErr, genVars, genErr, outcome, callVars, visit, snap, bcast, sqVars, waiter>>

\* ------------------------------------------------------------------------
\* StopTask

\* Mutant of StopTask: true is returned for an absent id too.
StopTaskAlwaysTrue(p, i) ==
    /\ Call(p)
    /\ IF tasks[i] # NoGen
       THEN /\ pc' = [pc EXCEPT ![p] = "sp_cancel"]
            /\ args' = [args EXCEPT ![p] = [NoArgs EXCEPT !.op = "StopTask", !.id = i]]
            /\ loaded' = [loaded EXCEPT ![p] = tasks[i]]
            /\ UNCHANGED <<mine, last>>
       ELSE Return(p, "StopTask", "true", NoGen)
    /\ UNCHANGED <<tasks, wg, ctxErr, genVars, genErr, sup, outcome, visit, snap, bcast, sqVars, waiter>>

\* Line 67: cancelFn, ok := s.tasks.Load(id); line 72 when absent.
StopTask(p, i) ==
    /\ Call(p)
    /\ IF tasks[i] # NoGen
       THEN /\ pc' = [pc EXCEPT ![p] = "sp_cancel"]
            /\ args' = [args EXCEPT ![p] = [NoArgs EXCEPT !.op = "StopTask", !.id = i]]
            /\ loaded' = [loaded EXCEPT ![p] = tasks[i]]
            /\ UNCHANGED <<mine, last>>
       ELSE Return(p, "StopTask", "false", NoGen)
    /\ UNCHANGED <<tasks, wg, ctxErr, genVars, genErr, sup, outcome, visit, snap, bcast, sqVars, waiter>>

\* Line 68: cancelFn.(context.CancelFunc)()
SpCancel(p) ==
    /\ pc[p] = "sp_cancel"
    /\ genErr' = Fired(loaded[p])
    /\ pc' = [pc EXCEPT ![p] = "sp_delete"]
    /\ UNCHANGED <<tasks, wg, ctxErr, genVars, sup, outcome, args, loaded, mine, last, nCalls, visit, snap, bcast, sqVars, waiter>>

\* Mutant of DeleteOnStop: the whole registry is cleared.
DeleteAllOnStop(p) == [i \in Ids |-> NoGen]

\* Line 69: s.tasks.Delete(id)
DeleteOnStop(p) == [tasks EXCEPT ![args[p].id] = NoGen]

\* Lines 69-70: s.tasks.Delete(id); return true
SpDelete(p) ==
    /\ pc[p] = "sp_delete"
    /\ tasks' = DeleteOnStop(p)
    /\ Return(p, "StopTask", "true", loaded[p])
    /\ UNCHANGED <<wg, ctxErr, genVars, genErr, sup, outcome, nCalls, visit, snap, bcast, sqVars, waiter>>

\* ------------------------------------------------------------------------
\* GracefulShutdown

\* The generations whose CancelFunc is in the registry.
Registered == {tasks[i] : i \in Ids} \ {NoGen}

\* Entry: s.tasks.Range starts.
GracefulShutdown(p, w) ==
    /\ Call(p)
    /\ args' = [args EXCEPT ![p] = [NoArgs EXCEPT !.op = "GracefulShutdown", !.wait = w]]
    /\ visit' = [visit EXCEPT ![p] = Ids]
    /\ snap' = [snap EXCEPT ![p] = IF w THEN {} ELSE Registered]
    /\ bcast' = bcast
    /\ UNCHANGED sqVars
    /\ pc' = [pc EXCEPT ![p] = "gs_range"]
    /\ UNCHANGED <<tasks, wg, ctxErr, genVars, genErr, sup, outcome, loaded, mine, last, waiter>>

\* Mutant of GsRange: the callback also deletes the entry it fired.
GsRangeDeleting(p, i) ==
    /\ pc[p] = "gs_range"
    /\ i \in visit[p]
    /\ visit' = [visit EXCEPT ![p] = @ \ {i}]
    /\ snap' = snap
    /\ bcast' = [bcast EXCEPT ![p] = IF args[p].wait THEN @ \cup ({tasks[i]} \ {NoGen}) ELSE @]
    /\ UNCHANGED sqVars
    /\ genErr' = IF tasks[i] # NoGen THEN Fired(tasks[i]) ELSE genErr
    /\ tasks' = [tasks EXCEPT ![i] = NoGen]
    /\ UNCHANGED <<wg, ctxErr, genVars, sup, outcome, callVars, waiter>>

\* Lines 77-80: Range reaches key i (in any order); the callback fires the
\* CancelFunc stored under it, when there is one.
GsRange(p, i) ==
    /\ pc[p] = "gs_range"
    /\ i \in visit[p]
    /\ visit' = [visit EXCEPT ![p] = @ \ {i}]
    /\ snap' = snap
    /\ bcast' = [bcast EXCEPT ![p] = IF args[p].wait THEN @ \cup ({tasks[i]} \ {NoGen}) ELSE @]
    /\ UNCHANGED sqVars
    /\ genErr' = IF tasks[i] # NoGen THEN Fired(tasks[i]) ELSE genErr
    /\ UNCHANGED <<tasks, wg, ctxErr, genVars, sup, outcome, callVars, waiter>>

\* Lines 82-87 and 95-97: Range is over; either the waiter goroutine is
\* started and the caller reaches the select, or the call returns.
GsBranch(p) ==
    /\ pc[p] = "gs_range"
    /\ visit[p] = {}
    /\ IF args[p].wait
       THEN /\ pc' = [pc EXCEPT ![p] = "gs_wait"]
            /\ waiter' = [waiter EXCEPT ![p] = "waiting"]
            /\ UNCHANGED <<args, loaded, mine, last>>
       ELSE /\ Return(p, "GracefulShutdown", "nowait", NoGen)
            /\ waiter' = waiter
    /\ snap' = [snap EXCEPT ![p] = {}]
    /\ bcast' = [bcast EXCEPT ![p] = IF args[p].wait THEN @ ELSE {}]
    /\ UNCHANGED sqVars
    /\ UNCHANGED <<tasks, wg, ctxErr, genVars, genErr, sup, outcome, nCalls, visit>>

\* Mutant of WaitReturns: Wait does not wait for the counter.
WaitReturnsAtOnce == TRUE

\* sync.WaitGroup.Wait returns when the counter is zero.
WaitReturns == wg = 0

\* Lines 85-86: s.wg.Wait() returns in the waiter goroutine; close(done).
WaiterClose(p) ==
    /\ waiter[p] = "waiting"
    /\ WaitReturns
    /\ waiter' = [waiter EXCEPT ![p] = "closed"]
    /\ UNCHANGED <<tasks, wg, ctxErr, genVars, genErr, sup, outcome, callVars, visit, snap, bcast, sqVars>>

\* The cases of the select (lines 89-94) that can be taken: <-done once the
\* waiter has closed it, <-time.After(timeout) once the timeout has elapsed
\* (at any time after the call).
SelectReady(p) ==
    (IF waiter[p] = "closed" THEN {"drained"} ELSE {}) \cup {"timeout"}

\* Lines 89-94: a ready case of the select is taken and the call returns.
\* A waiter goroutine left behind by a timeout has no further effect and is
\* dropped from the state.
GsSelect(p, r) ==
    /\ pc[p] = "gs_wait"
    /\ r \in SelectReady(p)
    /\ Return(p, "GracefulShutdown", r, NoGen)
    /\ waiter' = [waiter EXCEPT ![p] = "none"]
    /\ bcast' = [bcast EXCEPT ![p] = {}]
    /\ UNCHANGED <<snap, sqVars>>
    /\ UNCHANGED <<tasks, wg, ctxErr, genVars, genErr, sup, outcome, nCalls, visit>>

\* ------------------------------------------------------------------------
\* The inputs.  Callers are interchangeable and so are ids: the first call of
\* a run is made by "p" and the first task of a run is started under "a".

Callers == IF nCalls = 0 THEN {"p"} ELSE Procs
StartIds == IF nGen = 0 /\ Deriving = {} THEN {"a", EmptyId} ELSE Ids \cup {EmptyId}

Next ==
    \/ \E p \in Callers, c \in Ctxs, i \in StartIds, f \in Fns \cup {NilFn} : StartTask(p, c, i, f)
    \/ \E p \in Procs : StLoad(p)
    \/ \E p \in Procs : StCancel(p)
    \/ \E p \in Procs : StStore(p)
    \/ \E p \in Procs : StAdd(p)
    \/ \E g \in Gens : SupReturn(g)
    \/ \E g \in Gens : SupDelete(g)
    \/ \E g \in Gens : SupDone(g)
    \/ \E p \in Callers, i \in Ids : StopTask(p, i)
    \/ \E p \in Procs : SpCancel(p)
    \/ \E p \in Procs : SpDelete(p)
    \/ \E p \in Callers, i \in Ids : HasTask(p, i)
    \/ \E p \in Callers, w \in BOOLEAN : GracefulShutdown(p, w)
    \/ \E p \in Procs, i \in Ids : GsRange(p, i)
    \/ \E p \in Procs : GsBranch(p)
    \/ \E p \in Procs : WaiterClose(p)
    \/ \E p \in Procs, r \in {"drained", "timeout"} : GsSelect(p, r)
    \/ \E c \in Cancellable : CancelCtx(c)
    \/ \E c \in Cancellable : DeadlineCtx(c)

Spec == Init /\ [][Next]_vars

\* A caller running alone that only starts tasks (the scenario of
\* TestStartTask_ReplacesOldTask): no StopTask, no GracefulShutdown.
SeqCaller == "p"

SeqNext ==
    \/ \E c \in Ctxs, i \in StartIds, f \in Fns \cup {NilFn} : StartTask(SeqCaller, c, i, f)
    \/ StLoad(SeqCaller)
    \/ StCancel(SeqCaller)
    \/ StStore(SeqCaller)
    \/ StAdd(SeqCaller)
    \/ \E g \in Gens : SupReturn(g)
    \/ \E g \in Gens : SupDelete(g)
    \/ \E g \in Gens : SupDone(g)
    \/ \E c \in Cancellable : CancelCtx(c)
    \/ \E c \in Cancellable : DeadlineCtx(c)

SeqSpec == Init /\ [][SeqNext]_vars

\* A single goroutine making its calls one after the other (as the tests and
\* cmd/task_manager/main.go do): no two calls overlap; the supervisors and the
\* parent context run concurrently with it.
SoloCaller == "p"

SoloNext ==
    \/ \E c \in Ctxs, i \in StartIds, f \in Fns \cup {NilFn} : StartTask(SoloCaller, c, i, f)
    \/ StLoad(SoloCaller)
    \/ StCancel(SoloCaller)
    \/ StStore(SoloCaller)
    \/ StAdd(SoloCaller)
    \/ \E g \in Gens : SupReturn(g)
    \/ \E g \in Gens : SupDelete(g)
    \/ \E g \in Gens : SupDone(g)
    \/ \E i \in Ids : StopTask(SoloCaller, i)
    \/ SpCancel(SoloCaller)
    \/ SpDelete(SoloCaller)
    \/ \E i \in Ids : HasTask(SoloCaller, i)
    \/ \E w \in BOOLEAN : GracefulShutdown(SoloCaller, w)
    \/ \E i \in Ids : GsRange(SoloCaller, i)
    \/ GsBranch(SoloCaller)
    \/ WaiterClose(SoloCaller)
    \/ \E r \in {"drained", "timeout"} : GsSelect(SoloCaller, r)
    \/ \E c \in Cancellable : CancelCtx(c)
    \/ \E c \in Cancellable : DeadlineCtx(c)

SoloSpec == Init /\ [][SoloNext]_vars

\* Scheduling: a goroutine that can take its next step eventually takes it
\* (supervisor cleanup, the steps of GracefulShutdown, the timer of the select).
Fairness ==
    /\ \A g \in Gens : WF_vars(SupDelete(g)) /\ WF_vars(SupDone(g))
    /\ \A p \in Procs : WF_vars(\E i \in Ids : GsRange(p, i))
    /\ \A p \in Procs : WF_vars(GsBranch(p))
    /\ \A p \in Procs : WF_vars(GsSelect(p, "timeout"))

FairSpec == Spec /\ Fairness

\* ------------------------------------------------------------------------
\* pkg/shardqueue
\* ------------------------------------------------------------------------

\* Routing keys (interface{} values): a type and a value.  A string is its
\* bytes; an int its value; a float64 its sign and biased exponent (mantissa
\* 0: exp 0 is the zero, exp 1023 is 1.0); a bool is a type the switch of
\* convertKeyToBytes has no case for.
Key(t, b, v, n, e) == [type |-> t, bytes |-> b, val |-> v, neg |-> n, exp |-> e]

Keys ==
    { Key("string", <<97>>, 0, FALSE, 0),         \* "a"
      Key("string", <<97, 98>>, 0, FALSE, 0),     \* "ab"
      Key("int", <<>>, 1, FALSE, 0),              \* 1
      Key("float64", <<>>, 0, FALSE, 0),          \* 0.0
      Key("float64", <<>>, 0, TRUE, 0),           \* -0.0 (a float64 computed as such)
      Key("bool", <<>>, 1, FALSE, 0) }            \* true

\* Go's == on two routing keys: same dynamic type and equal values; the two
\* float64 zeros are equal.
KeyEq(k1, k2) ==
    /\ k1.type = k2.type
    /\ IF k1.type = "float64"
       THEN k1.exp = k2.exp /\ (k1.neg = k2.neg \/ k1.exp = 0)
       ELSE k1 = k2

\* Lines 93-97: binary.BigEndian.PutUint64(buf, uint64(n)), for |n| < 2^31.
BigEndian8(n) ==
    <<0, 0, 0, 0, (n \div 16777216) % 256, (n \div 65536) % 256, (n \div 256) % 256, n % 256>>

intToBytes(n) ==
    IF n >= 0 THEN BigEndian8(n)
    ELSE [k \in 1..8 |-> 255 - BigEndian8(-n - 1)[k]]

\* Lines 105-110: math.Float64bits(f), big-endian: sign bit, 11 exponent bits,
\* 52 mantissa bits (all 0 here).
floatToBytes(k) ==
    <<(IF k.neg THEN 128 ELSE 0) + (k.exp \div 16), (k.exp % 16) * 16, 0, 0, 0, 0, 0, 0>>

\* Line 89: []byte("defaultRoutingKey")
DefaultRoutingKey ==
    <<100, 101, 102, 97, 117, 108, 116, 82, 111, 117, 116, 105, 110, 103, 75, 101, 121>>

\* Lines 61-91.
convertKeyToBytes(k) ==
    CASE k.type = "string"  -> k.bytes
      [] k.type = "int"     -> intToBytes(k.val)
      [] k.type = "float64" -> floatToBytes(k)
      [] OTHER              -> DefaultRoutingKey

\* hash/fnv New32a: a 32-bit state, held as its high and low 16-bit halves.
\* offset32 = 2166136261 = 0x811C9DC5, prime32 = 16777619 = 2^24 + 403.
FnvOffset == [hi |-> 33052, lo |-> 40389]

RECURSIVE XorBits(_, _, _)
XorBits(a, b, n) ==
    IF n = 0 THEN 0
    ELSE (((a % 2) + (b % 2)) % 2) + 2 * XorBits(a \div 2, b \div 2, n - 1)

\* hash ^= uint32(c)
FnvXor(h, c) == [hi |-> h.hi, lo |-> (h.lo - (h.lo % 256)) + XorBits(h.lo % 256, c, 8)]

\* hash *= prime32 (mod 2^32)
FnvMul(h) ==
    [lo |-> (h.lo * 403) % 65536,
     hi |-> ((h.hi * 403) + ((h.lo * 403) \div 65536) + ((h.lo % 256) * 256)) % 65536]

\* Lines 56-57: h := fnv.New32a(); h.Write(key)
RECURSIVE Fnv32a(_, _)
Fnv32a(h, bytes) ==
    IF bytes = <<>> THEN h
    ELSE Fnv32a(FnvMul(FnvXor(h, Head(bytes))), Tail(bytes))

\* Line 58: int(h.Sum32()) % numShard.  With a 64-bit int the conversion keeps
\* the value; with a 32-bit int a hash of 2^31 or more becomes hash - 2^32, and
\* Go's % takes the sign of the dividend.
hashKeyToShard(key, n) ==
    LET h == Fnv32a(FnvOffset, key)
    IN  IF intBits = 32 /\ h.hi >= 32768
        THEN 0 - (((((65535 - h.hi) % n) * (65536 % n)) + ((65536 - h.lo) % n)) % n)
        ELSE (((h.hi % n) * (65536 % n)) + (h.lo % n)) % n

\* NewShardQueue (lines 18-26) on either build target.
SqInit ==
    /\ intBits \in {32, 64}
    /\ numShard \in 1..MaxShard
    /\ chans = [i \in Shards |-> "nil"]
    /\ queue = [i \in Shards |-> <<>>]
    /\ worker = [i \in Shards |-> "none"]
    /\ processed = [i \in Shards |-> <<>>]
    /\ sent = <<>>
    /\ started = 0
    /\ stopped = 0
    /\ fault = "none"

\* Lines 29-32: one iteration of Start's loop: make the channel, start its worker.
Start ==
    /\ fault = "none"
    /\ started < numShard
    /\ chans' = [chans EXCEPT ![started] = "open"]
    /\ worker' = [worker EXCEPT ![started] = "ranging"]
    /\ started' = started + 1
    /\ UNCHANGED <<tmVars, intBits, numShard, queue, processed, sent, stopped, fault>>

\* Lines 41-44, called between Start and Stop as cmd/shardqueue does: the
\* index expression panics when the index is out of range; the send blocks
\* while the channel is full.
Shard(k) ==
    /\ fault = "none"
    /\ started = numShard /\ stopped = 0
    /\ Len(sent) < MaxMsgs
    /\ LET shard == hashKeyToShard(convertKeyToBytes(k), numShard)
           msg == Len(sent) + 1
       IN  IF shard \in 0..(numShard - 1)
           THEN /\ Len(queue[shard]) < QueueSize
                /\ queue' = [queue EXCEPT ![shard] = Append(@, msg)]
                /\ sent' = Append(sent, [key |-> k, shard |-> shard, msg |-> msg])
                /\ fault' = fault
           ELSE /\ fault' = "index out of range"
                /\ UNCHANGED <<queue, sent>>
    /\ UNCHANGED <<tmVars, intBits, numShard, chans, worker, processed, started, stopped>>

\* Lines 36-38: one iteration of Stop's loop.
Stop ==
    /\ fault = "none"
    /\ started = numShard
    /\ stopped < numShard
    /\ chans' = [chans EXCEPT ![stopped] = "closed"]
    /\ stopped' = stopped + 1
    /\ UNCHANGED <<tmVars, intBits, numShard, queue, worker, processed, sent, started, fault>>

\* Lines 47-48: the range receives the oldest message and fn is invoked with it.
WorkerReceive(i) ==
    /\ fault = "none"
    /\ worker[i] = "ranging"
    /\ queue[i] # <<>>
    /\ processed' = [processed EXCEPT ![i] = Append(@, Head(queue[i]))]
    /\ queue' = [queue EXCEPT ![i] = Tail(@)]
    /\ worker' = [worker EXCEPT ![i] = "busy"]
    /\ UNCHANGED <<tmVars, intBits, numShard, chans, sent, started, stopped, fault>>

\* Lines 48-50: fn returns (its error is only logged).
WorkerFnReturns(i) ==
    /\ fault = "none"
    /\ worker[i] = "busy"
    /\ worker' = [worker EXCEPT ![i] = "ranging"]
    /\ UNCHANGED <<tmVars, intBits, numShard, chans, queue, processed, sent, started, stopped, fault>>

\* Mutant of RangeEnds: the range ends as soon as the channel is closed.
RangeEndsOnClose(i) == chans[i] = "closed"

\* Line 47: a range over a channel ends when the channel is closed and drained.
RangeEnds(i) == chans[i] = "closed" /\ queue[i] = <<>>

\* Lines 47 and 52: the range ends and the worker returns.
WorkerExit(i) ==
    /\ fault = "none"
    /\ worker[i] = "ranging"
    /\ RangeEnds(i)
    /\ worker' = [worker EXCEPT ![i] = "done"]
    /\ UNCHANGED <<tmVars, intBits, numShard, chans, queue, processed, sent, started, stopped, fault>>

ShardInit == TmInit /\ SqInit

ShardNext ==
    \/ Start
    \/ \E k \in Keys : Shard(k)
    \/ Stop
    \/ \E i \in Shards : WorkerReceive(i)
    \/ \E i \in Shards : WorkerFnReturns(i)
    \/ \E i \in Shards : WorkerExit(i)

ShardSpec == ShardInit /\ [][ShardNext]_vars

\* The worker goroutines are scheduled and fn returns.
WorkerFairness ==
    \A i \in Shards :
        WF_vars(WorkerReceive(i)) /\ WF_vars(WorkerFnReturns(i)) /\ WF_vars(WorkerExit(i))

ShardFairSpec == ShardSpec /\ WorkerFairness

\* The messages enqueued on queue i, in the order of their Shard calls.
RECURSIVE MsgsOn(_, _)
MsgsOn(i, s) ==
    IF s = <<>> THEN <<>>
    ELSE IF Head(s).shard = i THEN <<Head(s).msg>> \o MsgsOn(i, Tail(s))
    ELSE MsgsOn(i, Tail(s))

\* ------------------------------------------------------------------------
\* Helpers of the properties

InFlight(g) == sup[g] \in {"running", "returned", "deleted"}
Terminated(g) == genErr[g] # "none"
\* g is the newest generation derived for its id.
Newest(g) == \A h \in 1..nGen : h > g => genId[h] # genId[g]
\* The registry entry under generation g's id.
EntryOf(g) == IF genId[g] \in Ids THEN tasks[genId[g]] ELSE NoGen
\* A StartTask call on id i is between its acceptance and its Store.
Starting(i) == \E p \in Procs : pc[p] \in {"st_load", "st_cancel", "st_store"} /\ args[p].id = i
StopReturnsTrue(p) == pc[p] = "sp_delete" /\ pc'[p] = "idle"
taskState == <<tasks, wg, ctxErr, nGen, genId, genFn, genCtx, genErr, sup, outcome>>

TypeOK ==
    /\ tasks \in [Ids -> 0..MaxGen]
    /\ wg \in 0..MaxGen
    /\ nGen \in 0..MaxGen
    /\ snap \in [Procs -> SUBSET Gens]
    /\ bcast \in [Procs -> SUBSET Gens]

\* ------------------------------------------------------------------------
\* C1: a finishing supervisor removes the registry entry of its id if and
\* only if the entry still holds its own generation's cancellation handle; a
\* newer generation's entry survives the older supervisor's cleanup.
C1_SupervisorRemovesOnlyOwnEntry ==
    [][\A g \in Gens :
         (sup[g] = "returned" /\ sup'[g] = "deleted")
         => tasks' = IF tasks[genId[g]] = g THEN [tasks EXCEPT ![genId[g]] = NoGen] ELSE tasks]_vars

\* C2: of the concurrent StopTask calls on one existing registry entry exactly
\* one returns true: no StopTask call returns true for the entry (generation)
\* for which the StopTask call that returned before it returned true.
C2_OneStopReturnsTrue ==
    [][\A p \in Procs :
         StopReturnsTrue(p)
         => ~(last.op = "StopTask" /\ last.val = "true" /\ last.gen = loaded[p])]_vars

\* C3: StopTask is an atomic test-and-remove: the entry removed by a StopTask
\* call that returns true is the entry whose cancellation handle the call
\* fired, never the entry of another generation.
C3_StopRemovesWhatItFired ==
    [][\A p \in Procs :
         StopReturnsTrue(p) /\ tasks[args[p].id] # NoGen
         => tasks[args[p].id] = loaded[p]]_vars

\* C4: after two accepted StartTask calls on one id, one after the other, the
\* first task blocking on its signal, without StopTask or GracefulShutdown
\* (SeqSpec): once the second call has returned, the first generation's
\* signal is terminated, and while the second generation is running the
\* registry entry of the id is the second generation's.
C4_SecondGenerationKeepsEntry ==
    \A g1, g2 \in 1..nGen :
        (/\ g1 < g2 /\ genId[g1] = genId[g2] /\ Newest(g2)
         /\ genFn[g1] = "block" /\ sup[g2] = "running")
        => Terminated(g1) /\ tasks[genId[g2]] = g2

\* C5: a StartTask call whose signal is already terminated installs no entry,
\* derives no generation, starts no supervisor, leaves the completion tracker
\* and every existing generation's signal as they were, and (its id and
\* function being valid, which are checked first) returns the signal's own
\* termination reason.
C5_TerminatedSignalRejected ==
    [][\A p \in Procs, c \in Ctxs, i \in Ids \cup {EmptyId}, f \in Fns \cup {NilFn} :
         (nCalls' # nCalls /\ ctxErr[c] # "none" /\ StartTask(p, c, i, f))
         => /\ UNCHANGED taskState
            /\ pc'[p] = "idle"
            /\ last'.op = "StartTask" /\ last'.val # "nil"
            /\ (i # EmptyId /\ f # NilFn => last'.val = ctxErr[c])]_vars

\* A StartTask call was rejected with the reason of its expired signal while
\* an entry with a live signal was in the registry.
C5_Witness ==
    /\ last.op = "StartTask" /\ last.val = "DeadlineExceeded"
    /\ wg = 1
    /\ \E i \in Ids : tasks[i] # NoGen /\ ~Terminated(tasks[i]) /\ sup[tasks[i]] = "running"

\* C6: StartTask with an empty id returns ErrInvalidTaskID, and with a nil
\* function (and a non-empty id, the id being checked first) ErrNilTaskFunc;
\* either way the registry, the completion tracker, the generations and
\* their signals are unchanged and no supervisor is started.
C6_InvalidArgumentsRejected ==
    [][\A p \in Procs, c \in Ctxs, i \in Ids \cup {EmptyId}, f \in Fns \cup {NilFn} :
         (nCalls' # nCalls /\ (i = EmptyId \/ f = NilFn) /\ StartTask(p, c, i, f))
         => /\ UNCHANGED taskState
            /\ pc'[p] = "idle"
            /\ last'.op = "StartTask"
            /\ (i = EmptyId => last'.val = "ErrInvalidTaskID")
            /\ (i # EmptyId => last'.val = "ErrNilTaskFunc")]_vars

\* A StartTask call was rejected for its nil function while a task was running.
C6_Witness ==
    /\ last.op = "StartTask" /\ last.val = "ErrNilTaskFunc"
    /\ \E i \in Ids : tasks[i] # NoGen /\ ~Terminated(tasks[i]) /\ sup[tasks[i]] = "running"

\* C7: StopTask on an id without a registry entry returns false and changes
\* neither the registry, nor the completion tracker, nor any signal.
C7_StopAbsentHasNoEffect ==
    [][\A p \in Procs, i \in Ids :
         (nCalls' # nCalls /\ tasks[i] = NoGen /\ StopTask(p, i))
         => /\ UNCHANGED taskState
            /\ pc'[p] = "idle"
            /\ last' = [op |-> "StopTask", val |-> "false", gen |-> NoGen]]_vars

\* StopTask returned false while a task under the other id was running.
C7_Witness ==
    /\ last.op = "StopTask" /\ last.val = "false"
    /\ \E i \in Ids : tasks[i] # NoGen /\ ~Terminated(tasks[i]) /\ sup[tasks[i]] = "running"
    /\ \E i \in Ids : tasks[i] = NoGen

\* C8: once the task function of the newest generation of an id has returned
\* (whatever its outcome) and no StartTask on the id is in progress, HasTask(id)
\* becomes false, unless a further StartTask is issued on the id.
C8_EntryRemovedAfterReturn ==
    \A g \in Gens :
        (sup[g] = "returned" /\ Newest(g) /\ ~Starting(genId[g]))
        ~> (EntryOf(g) = NoGen \/ ~Newest(g) \/ Starting(genId[g]))

\* A task function returned an error that is not a cancellation (its signal's
\* deadline had expired) and its supervisor removed
\* the entry that was still its own.
C8_Witness ==
    \E g \in 1..nGen :
        /\ outcome[g] = "failed" /\ sup[g] = "deleted" /\ Newest(g)
        /\ tasks[genId[g]] = NoGen /\ ~Starting(genId[g])

\* C9: the completion tracker counts the accepted StartTask calls (those that
\* returned nil) minus the supervisors that have finished their cleanup; it is
\* never negative, and it is zero only when no supervisor is in flight.
C9_TrackerCountsInFlight ==
    /\ wg >= 0
    /\ wg = Cardinality({g \in Gens : sup[g] # "none"}) - Cardinality({g \in Gens : sup[g] = "done"})
    /\ (wg = 0 => \A g \in Gens : ~InFlight(g))

\* Two calls were accepted, one supervisor has finished after a cancellation
\* and the other is still running.
C9_Witness ==
    /\ wg = 1
    /\ \E g, h \in 1..nGen : sup[g] = "done" /\ outcome[g] = "canceled" /\ sup[h] = "running"

\* C10: GracefulShutdown(wait=true) returns through the done channel or through
\* the timer only; the done channel is closed only at a moment when the
\* completion tracker is zero and no supervisor is in flight; and a call that
\* waits always returns, at the timeout when a task never finishes.
C10_WaitReturnsOnDrainOrTimeout ==
    /\ [][\A p \in Procs :
            (pc[p] = "gs_wait" /\ pc'[p] = "idle")
            => /\ last'.op = "GracefulShutdown"
               /\ \/ last'.val = "timeout"
                  \/ last'.val = "drained" /\ waiter[p] = "closed"]_vars
    /\ [][\A p \in Procs :
            (waiter[p] # "closed" /\ waiter'[p] = "closed")
            => wg = 0 /\ \A g \in Gens : ~InFlight(g)]_vars
    /\ \A p \in Procs :
         (pc[p] = "gs_range" /\ args[p].wait) ~> (pc[p] = "idle")

\* GracefulShutdown(wait=true) returned at the timeout while a cancelled task
\* that never returns is still in flight.
C10_Witness ==
    /\ last.op = "GracefulShutdown" /\ last.val = "timeout"
    /\ wg > 0
    /\ \E g \in 1..nGen : genFn[g] = "hang" /\ sup[g] = "running" /\ genErr[g] = "Canceled"

\* C11: when GracefulShutdown(wait=false) returns, every generation that was
\* in the registry when the call was made (no StartTask running concurrently:
\* SoloSpec) has had its handle fired, unless its function had already
\* returned by itself.
C11_RegisteredAreFired ==
    [][\A p \in Procs :
         (pc[p] = "gs_range" /\ ~args[p].wait /\ pc'[p] = "idle")
         => \A g \in snap[p] : Terminated(g) \/ sup[g] # "running"]_vars

\* A step of caller p's GracefulShutdown: its call, a visit of Range, the
\* branch on wait, the close of done by its waiter, or its return.
GsStep(p) ==
    \/ args[p].op = "none" /\ args'[p].op = "GracefulShutdown"
    \/ /\ args[p].op = "GracefulShutdown"
       /\ pc'[p] # pc[p] \/ visit'[p] # visit[p] \/ waiter'[p] # waiter[p]

\* A GracefulShutdown is in progress or was the last call to return.
ShutdownSeen ==
    \/ \E q \in Procs : args[q].op = "GracefulShutdown"
    \/ last.op = "GracefulShutdown"

\* C12: no step of GracefulShutdown changes the registry; and the manager is
\* never closed: a StartTask made during or after a GracefulShutdown is
\* rejected only for an empty id, a nil function or a terminated signal;
\* once accepted, its Store installs an entry for a new generation, and it
\* returns nil with the supervisor started and counted.
C12_ShutdownKeepsRegistryOpen ==
    [][\A p \in Procs :
         /\ GsStep(p) => tasks' = tasks
         /\ (nCalls' # nCalls /\ ShutdownSeen /\ pc' = pc /\ last'.op = "StartTask")
            => \/ last'.val \in {"ErrInvalidTaskID", "ErrNilTaskFunc"}
               \/ \E c \in Cancellable : ctxErr[c] # "none" /\ last'.val = ctxErr[c]
         /\ (pc[p] = "st_store" /\ pc'[p] # pc[p])
            => /\ nGen' = nGen + 1
               /\ tasks' = [tasks EXCEPT ![args[p].id] = nGen']
         /\ (pc[p] = "st_add" /\ pc'[p] # pc[p])
            => /\ sup[mine[p]] = "none" /\ sup'[mine[p]] = "running"
               /\ wg' = wg + 1
               /\ last' = [op |-> "StartTask", val |-> "nil", gen |-> mine[p]]]_vars

\* The first call is a GracefulShutdown(wait=true) that has fired every entry
\* and is still waiting; the second call, a StartTask made meanwhile, has
\* returned nil and its task is registered, running and not cancelled.
C12_Witness ==
    /\ nCalls = 2
    /\ pc["p"] = "gs_wait"
    /\ last = [op |-> "StartTask", val |-> "nil", gen |-> 1]
    /\ tasks[genId[1]] = 1 /\ sup[1] = "running" /\ genErr[1] = "none"

\* A step that acts on id a: a step of a StartTask(a) or StopTask(a) call
\* (Load, cancel of the loaded generation, Store, Add, Delete), or Range
\* firing the handle stored under a.
StepOn(p, a) ==
    \/ args[p].op \in {"StartTask", "StopTask"} /\ args[p].id = a /\ pc'[p] # pc[p]
    \/ pc[p] = "gs_range" /\ a \in visit[p] /\ visit'[p] = visit[p] \ {a}

C14_ParentTerminationPropagates ==
    /\ [](\A g \in 1..nGen : ctxErr[genCtx[g]] # "none" => Terminated(g))
    /\ [][\A c \in Cancellable :
            ctxErr'[c] # ctxErr[c]
            => \A g \in 1..nGen :
                 (genCtx[g] = c /\ ~Terminated(g)) => genErr'[g] = ctxErr'[c]]_vars

\* Two StartTask calls and nothing else were made, with the same parent and
\* different ids; the parent has terminated and so have both signals, with the
\* parent's reason, while both entries are still registered.
C14_Witness ==
    /\ nCalls = 2 /\ nGen = 2
    /\ genCtx[1] = "parent" /\ genCtx[2] = "parent" /\ genId[1] # genId[2]
    /\ ctxErr["parent"] = "DeadlineExceeded"
    /\ genErr[1] = "DeadlineExceeded" /\ genErr[2] = "DeadlineExceeded"
    /\ tasks[genId[1]] = 1 /\ tasks[genId[2]] = 2

\* C15: Shard routes deterministically: every Shard call enqueues on an index
\* in 0..numShard-1 (the index expression never panics), and calls with equal
\* routing keys enqueue on the same queue.
C15_ShardIndexInRange ==
    /\ fault # "index out of range"
    /\ \A m \in 1..Len(sent) : sent[m].shard \in 0..(numShard - 1)
    /\ \A m, n \in 1..Len(sent) : KeyEq(sent[m].key, sent[n].key) => sent[m].shard = sent[n].shard

\* C16: each queue has one worker, which invokes fn once per message in the
\* order of enqueueing and exits only when its channel is closed and drained;
\* once Stop has returned, every worker eventually exits, having passed every
\* message enqueued on its queue to fn.
C16_WorkersDrainInOrder ==
    /\ [](\A i \in 0..(numShard - 1) :
            /\ (i < started) = (worker[i] # "none")
            /\ MsgsOn(i, sent) = processed[i] \o queue[i]
            /\ worker[i] = "done" => chans[i] = "closed" /\ processed[i] = MsgsOn(i, sent))
    /\ (numShard > 0 /\ stopped = numShard)
         ~> (\A i \in 0..(numShard - 1) : worker[i] = "done" /\ processed[i] = MsgsOn(i, sent))

\* Stop has returned; one worker has exited after passing two messages to fn,
\* another still has a message, enqueued before Stop, to receive.
C16_Witness ==
    /\ numShard > 1 /\ stopped = numShard
    /\ \E i, j \in 0..(numShard - 1) :
         /\ worker[i] = "done" /\ Len(processed[i]) = 2
         /\ worker[j] = "ranging" /\ queue[j] # <<>>

\* C17: displacement is a fetch-and-cancel: whenever the Store of a StartTask
\* overwrites the registry entry of a generation, that generation's signal has
\* been terminated (by this StartTask's own cancel or otherwise), also with
\* several StartTask calls running concurrently.
C17_OverwrittenIsFired ==
    [][\A p \in Procs :
         (pc[p] = "st_store" /\ pc'[p] = "st_add" /\ tasks[args[p].id] # NoGen)
         => Terminated(tasks[args[p].id])]_vars

\* C18: a StartTask racing a StopTask on the same id ends as one of the two
\* sequential orders does: when StopTask returns true, the generation whose
\* registry entry it removed has a terminated signal, so that no generation is
\* left with a non-terminated signal and no registry entry.
C18_RaceEndsAsSequentialOrder ==
    [][\A p \in Procs :
         (StopReturnsTrue(p) /\ tasks[args[p].id] # NoGen)
         => genErr'[tasks[args[p].id]] # "none"]_vars

\* C19: cancellation is cooperative: StopTask removes the registry entry by
\* the time it returns true, but no step of StopTask or GracefulShutdown ends
\* a supervisor or changes the tracker; a task function that ignores its
\* signal is in flight, with the tracker above zero, until it returns by
\* itself, and one that never returns stays so whatever calls are made.
C19_CancellationIsCooperative ==
    /\ [][\A p \in Procs :
            /\ StopReturnsTrue(p) => tasks'[args[p].id] = NoGen
            /\ (args[p].op # "StartTask" /\ (pc'[p] # pc[p] \/ GsStep(p)))
               => sup' = sup /\ wg' = wg]_vars
    /\ [](\A g \in Gens :
            /\ (genFn[g] \in {"work", "hang"} /\ sup[g] = "running") => wg > 0
            /\ (genFn[g] = "hang" /\ sup[g] # "none") => sup[g] = "running")

\* A task that never returns was stopped by StopTask (its signal is
\* terminated and its entry removed); a GracefulShutdown(wait=true) made
\* afterwards has timed out; the supervisor is still running and counted.
C19_Witness ==
    /\ last.op = "GracefulShutdown" /\ last.val = "timeout"
    /\ \E g \in 1..nGen :
         /\ genFn[g] = "hang" /\ sup[g] = "running" /\ genErr[g] = "Canceled"
         /\ tasks[genId[g]] = NoGen
    /\ wg = 1

\* C20: when GracefulShutdown(wait=true) returns because the tracker
\* drained, every generation whose handle its broadcast fired has finished
\* its supervisor cleanup, also with a StartTask in progress concurrently.
C20_DrainedMeansFiredAreDone ==
    [][\A p \in Procs :
         (pc[p] = "gs_wait" /\ pc'[p] = "idle" /\ last'.val = "drained")
         => \A g \in bcast[p] : sup[g] = "done"]_vars

\* C21: no running task is unreachable: whenever no StartTask or StopTask
\* call is in progress, every generation whose task function is running with
\* a non-terminated signal has its own handle in the registry under its id
\* (single caller, SoloSpec).
C21_RunningIsRegistered ==
    (\A p \in Procs : pc[p] \notin {"st_load", "st_cancel", "st_store", "st_add", "sp_cancel", "sp_delete"})
    => \A g \in 1..nGen :
         (sup[g] = "running" /\ ~Terminated(g)) => tasks[genId[g]] = g

\* C22: the registry never leaks entries: whenever no StartTask call is in
\* progress, every registry entry is the handle of a generation whose
\* supervisor has not yet run its cleanup, so its id has a supervisor in
\* flight; and when the tracker is zero the registry is empty.
C22_NoLeakedEntry ==
    (\A p \in Procs : pc[p] \notin {"st_load", "st_cancel", "st_store", "st_add"})
    => /\ \A i \in Ids :
            tasks[i] # NoGen
            => /\ sup[tasks[i]] \in {"running", "returned"}
               /\ \E g \in 1..nGen : genId[g] = i /\ InFlight(g)
       /\ (wg = 0 => \A i \in Ids : tasks[i] = NoGen)

\* Two tasks were started under one id, the second displacing the first; both
\* supervisors have finished their cleanup, the tracker is back to zero and
\* the registry is empty.
C22_Witness ==
    /\ nGen = 2 /\ genId[1] = genId[2]
    /\ sup[1] = "done" /\ sup[2] = "done"
    /\ outcome[1] = "canceled"
    /\ wg = 0
    /\ \A p \in Procs : pc[p] = "idle"
    /\ \A i \in Ids : tasks[i] = NoGen

====
